---- MODULE Spec2Model ----
(***************************************************************************)
(* The snippet execution service of api/py/exec.py: handler and            *)
(* execute_python, stepped statement by statement, with the process-wide   *)
(* SIGALRM deadline delivered on the main thread at any point while it is  *)
(* armed, and the module objects that the restricted namespace shares      *)
(* between calls.                                                          *)
(***************************************************************************)
EXTENDS Integers, Sequences, FiniteSets, TLC

\* Number of requests served in one behaviour.
MaxCalls == 2

Threads == {"main", "worker"}

\* signal.signal accepts a handler only on the main thread of the interpreter.
MainThread == "main"

(***************************************************************************)
(* Python values: a type tag t, a numeric payload v and a text payload s.  *)
(***************************************************************************)
V(t, v, s) == [t |-> t, v |-> v, s |-> s]

None == V("NoneType", <<>>, "")

PyInt(n) == V("int", <<n>>, "")

PyFloat(n, d) == V("float", <<n, d>>, "")

PyStr(s) == V("str", <<>>, s)

PySet(xs) == V("set", xs, "")

PyList(xs) == V("list", xs, "")

NdArray(xs) == V("numpy.ndarray", xs, "")

NpInt64(n) == V("numpy.int64", <<n>>, "")

PyFraction(n, d) == V("Fraction", <<n, d>>, "")

Symbol(s) == V("Symbol", <<>>, s)

Module(s) == V("module", <<>>, s)

Builtin(s) == V("builtin", <<>>, s)

\* The __builtins__ mapping execute_python builds.
SafeBuiltinsDict == V("builtins", <<>>, "")

\* A JSON object with one entry, name: n.
JsonObject(name, n) == V("dict", <<n>>, name)

EmptyDict == [n \in {} |-> None]

\* dict.update: the entries of b on top of those of a.
Update(a, b) == b @@ a

(***************************************************************************)
(* Exceptions: the class name and the pieces of str(e).                    *)
(***************************************************************************)
NoExc == [type |-> "", msg |-> <<>>]

Exc(type, msg) == [type |-> type, msg |-> msg]

TimeoutExc == Exc("TimeoutError", <<"Execution timeout">>)

(***************************************************************************)
(* The snippet language: expressions and statements of the requests below. *)
(***************************************************************************)
Const(v) == [k |-> "const", name |-> "", attr |-> "", val |-> v]

Name(n) == [k |-> "name", name |-> n, attr |-> "", val |-> None]

Add(n, i) == [k |-> "add", name |-> n, attr |-> "", val |-> PyInt(i)]

Mul(n, i) == [k |-> "mul", name |-> n, attr |-> "", val |-> PyInt(i)]

\* name(arg), a call of a global or builtin function
Call(n, arg) == [k |-> "call", name |-> n, attr |-> "", val |-> arg]

\* name.attr(...) or name(...), a constructor of an allow-listed module or type
Make(n, a, v) == [k |-> "make", name |-> n, attr |-> a, val |-> v]

\* name.__dict__.get(attr, default)
AttrGet(n, a, default) == [k |-> "attrget", name |-> n, attr |-> a, val |-> default]

Stmt(op, target, attr, expr, guarded) ==
    [op |-> op, target |-> target, attr |-> attr, expr |-> expr, guarded |-> guarded]

Assign(target, e) == Stmt("assign", target, "", e, FALSE)

ExprStmt(e) == Stmt("expr", "", "", e, FALSE)

Import(m) == Stmt("import", m, "", Const(None), FALSE)

SetAttr(target, a, e) == Stmt("setattr", target, a, e, FALSE)

WhileTrue == Stmt("loop", "", "", Const(None), FALSE)

\* try: <s>  except: pass
Try(s) == [s EXCEPT !.guarded = TRUE]

(***************************************************************************)
(* Source texts, character by character.                                   *)
(***************************************************************************)
SrcResult42 ==
    <<"r", "e", "s", "u", "l", "t", " ", "=", " ", "4", "2">>

SrcLastExpr ==
    <<"x", " ", "=", " ", "1", "\n", "x", " ", "+", " ", "1">>

SrcImportOs ==
    <<"i", "m", "p", "o", "r", "t", " ", "o", "s", "\n", "o", "s", ".", "s", "y", "s", "t", "e", "m", "(", "'", "l", "s", "'", ")">>

SrcOpen ==
    <<"d", "a", "t", "a", " ", "=", " ", "o", "p", "e", "n", "(", "'", "f", "'", ")">>

SrcTryOpen ==
    <<"t", "r", "y", ":", "\n", " ", " ", " ", " ", "d", "a", "t", "a", " ", "=", " ", "o", "p", "e", "n", "(", "'", "f", "'", ")", "\n", "e", "x", "c", "e", "p", "t", ":", "\n", " ", " ", " ", " ", "p", "a", "s", "s">>

SrcLoop ==
    <<"w", "h", "i", "l", "e", " ", "T", "r", "u", "e", ":", " ", "p", "a", "s", "s">>

SrcArray ==
    <<"r", "e", "s", "u", "l", "t", " ", "=", " ", "n", "p", ".", "a", "r", "r", "a", "y", "(", "[", "1", ",", " ", "2", ",", " ", "3", "]", ")">>

SrcSet ==
    <<"r", "e", "s", "u", "l", "t", " ", "=", " ", "{", "1", ",", " ", "2", "}">>

SrcNoneThenExpr ==
    <<"a", "n", "s", "w", "e", "r", " ", "=", " ", "5", "\n", "r", "e", "s", "u", "l", "t", " ", "=", " ", "N", "o", "n", "e", "\n", "a", "n", "s", "w", "e", "r">>

SrcFormula ==
    <<"f", "o", "r", "m", "u", "l", "a", " ", "=", " ", "1", "\n", "f", "o", "r", "m", "u", "l", "a", " ", "+", " ", "1">>

SrcMathAttr ==
    <<"r", "e", "s", "u", "l", "t", " ", "=", " ", "m", "a", "t", "h", ".", "_", "_", "d", "i", "c", "t", "_", "_", ".", "g", "e", "t", "(", "'", "k", "'", ",", " ", "0", ")", "\n", "m", "a", "t", "h", ".", "k", " ", "=", " ", "1">>

SrcPrint ==
    <<"p", "r", "i", "n", "t", "(", "'", "h", "i", "'", ")", "\n">>

SrcSymbol ==
    <<"r", "e", "s", "u", "l", "t", " ", "=", " ", "s", "y", "m", "p", "y", ".", "S", "y", "m", "b", "o", "l", "(", "'", "x", "'", ")">>

SrcFraction ==
    <<"a", "n", "s", "w", "e", "r", " ", "=", " ", "F", "r", "a", "c", "t", "i", "o", "n", "(", "1", ",", " ", "2", ")">>

SrcDouble ==
    <<"r", "e", "s", "u", "l", "t", " ", "=", " ", "x", " ", "*", " ", "2">>

SrcFinalInput ==
    <<"x", " ", "+", " ", "1">>

SrcScalar ==
    <<"o", "u", "t", "p", "u", "t", " ", "=", " ", "n", "p", ".", "i", "n", "t", "6", "4", "(", "7", ")">>

SrcOpenName ==
    <<"r", "e", "s", "u", "l", "t", " ", "=", " ", "o", "p", "e", "n">>

SrcEmpty ==
    <<>>

StatementKeywords ==
    <<
        <<"p", "r", "i", "n", "t">>,
        <<"i", "m", "p", "o", "r", "t">>,
        <<"f", "r", "o", "m">>,
        <<"d", "e", "f">>,
        <<"c", "l", "a", "s", "s">>,
        <<"i", "f">>,
        <<"f", "o", "r">>,
        <<"w", "h", "i", "l", "e">>,
        <<"t", "r", "y">>,
        <<"w", "i", "t", "h">>
    >>

(***************************************************************************)
(* The requests served: body well-formed or not, code, the statements the  *)
(* code compiles to, and inputs.                                           *)
(***************************************************************************)
Req(code, prog, inputs) ==
    [wellformed |-> TRUE, code |-> code, prog |-> prog, inputs |-> inputs]

Requests ==
    <<
        Req(SrcResult42, <<Assign("result", Const(PyInt(42)))>>, EmptyDict),
        Req(SrcLastExpr, <<Assign("x", Const(PyInt(1))), ExprStmt(Add("x", 1))>>, EmptyDict),
        Req(SrcImportOs, <<Import("os"), ExprStmt(Make("os", "system", None))>>, EmptyDict),
        Req(SrcOpen, <<Assign("data", Call("open", PyStr("f")))>>, EmptyDict),
        Req(SrcTryOpen, <<Try(Assign("data", Call("open", PyStr("f"))))>>, EmptyDict),
        Req(SrcLoop, <<WhileTrue>>, EmptyDict),
        Req(SrcArray, <<Assign("result", Make("np", "array", NdArray(<<1, 2, 3>>)))>>, EmptyDict),
        Req(SrcSet, <<Assign("result", Const(PySet(<<1, 2>>)))>>, EmptyDict),
        Req(SrcNoneThenExpr,
            <<Assign("answer", Const(PyInt(5))), Assign("result", Const(None)),
              ExprStmt(Name("answer"))>>, EmptyDict),
        Req(SrcFormula, <<Assign("formula", Const(PyInt(1))), ExprStmt(Add("formula", 1))>>,
            EmptyDict),
        Req(SrcMathAttr,
            <<Assign("result", AttrGet("math", "k", PyInt(0))),
              SetAttr("math", "k", Const(PyInt(1)))>>, EmptyDict),
        Req(SrcPrint, <<ExprStmt(Call("print", PyStr("hi")))>>, EmptyDict),
        Req(SrcSymbol, <<Assign("result", Make("sympy", "Symbol", Symbol("x")))>>, EmptyDict),
        Req(SrcFraction, <<Assign("answer", Make("Fraction", "", PyFraction(1, 2)))>>,
            EmptyDict),
        Req(SrcDouble, <<Assign("result", Mul("x", 2))>>, "x" :> PyInt(5)),
        Req(SrcFinalInput, <<ExprStmt(Add("x", 1))>>, ("x" :> PyInt(1)) @@ ("final" :> PyInt(9))),
        Req(SrcScalar, <<Assign("output", Make("np", "int64", NpInt64(7)))>>, EmptyDict),
        Req(SrcOpenName, <<Assign("result", Name("open"))>>,
            "__builtins__" :> JsonObject("open", 1)),
        Req(SrcEmpty, <<>>, EmptyDict),
        [wellformed |-> FALSE, code |-> SrcEmpty, prog |-> <<>>, inputs |-> EmptyDict]
    >>

ReqIds == 1..Len(Requests)

(***************************************************************************)
(* str.strip, str.split('\n') and str.startswith on character sequences.   *)
(***************************************************************************)
Whitespace == {" ", "\t", "\n", "\r"}

RECURSIVE LStrip(_)
LStrip(s) == IF s = <<>> \/ Head(s) \notin Whitespace THEN s ELSE LStrip(Tail(s))

RECURSIVE RStrip(_)
RStrip(s) ==
    IF s = <<>> \/ s[Len(s)] \notin Whitespace THEN s ELSE RStrip(SubSeq(s, 1, Len(s) - 1))

Strip(s) == RStrip(LStrip(s))

RECURSIVE SplitFrom(_, _)
SplitFrom(s, cur) ==
    IF s = <<>> THEN <<cur>>
    ELSE IF Head(s) = "\n" THEN <<cur>> \o SplitFrom(Tail(s), <<>>)
    ELSE SplitFrom(Tail(s), Append(cur, Head(s)))

SplitLines(s) == SplitFrom(s, <<>>)

StartsWith(s, p) == Len(s) >= Len(p) /\ SubSeq(s, 1, Len(p)) = p

\* str.startswith with a tuple of prefixes
StartsWithAny(s, ps) == \E i \in 1..Len(ps) : StartsWith(s, ps[i])

\* lines[-1].strip() of code.strip().split('\n')
LastLine(code) ==
    LET lines == SplitLines(Strip(code))
    IN  Strip(lines[Len(lines)])

\* The trailing-expression fallback evaluates the last line when it is
\* non-empty and starts with none of the statement keywords.
FallbackApplies(code) ==
    LET last_line == LastLine(code)
    IN  last_line # <<>> /\ ~StartsWithAny(last_line, StatementKeywords)

(***************************************************************************)
(* The restricted namespace.                                               *)
(***************************************************************************)
\* The builtins with the file and import primitives left in.
SafeBuiltinsWithOpen ==
    {"abs", "all", "any", "bool", "dict", "enumerate", "filter", "float", "int", "len",
     "list", "map", "max", "min", "pow", "range", "round", "set", "sorted", "str", "sum",
     "tuple", "type", "zip", "print", "open", "__import__"}

SafeBuiltins ==
    {"abs", "all", "any", "bool", "dict", "enumerate", "filter", "float", "int", "len",
     "list", "map", "max", "min", "pow", "range", "round", "set", "sorted", "str", "sum",
     "tuple", "type", "zip", "print"}

SafeGlobals ==
    [n \in {"__builtins__", "sympy", "np", "numpy", "Fraction", "math", "itertools",
            "statistics"} |->
        CASE n = "__builtins__" -> SafeBuiltinsDict
          [] n = "np" -> Module("numpy")
          [] n = "Fraction" -> V("type", <<>>, "Fraction")
          [] OTHER -> Module(n)]

\* The objects the namespace refers to live as long as the process.
SharedObjects == {SafeGlobals[n].s : n \in DOMAIN SafeGlobals \ {"__builtins__"}}

\* safe_globals with inputs on top, then copied
BuildGlobals(inputs) ==
    IF DOMAIN inputs # {} THEN Update(SafeGlobals, inputs) ELSE SafeGlobals

\* The entry of name n in the mapping g["__builtins__"]: the mapping built by
\* execute_python, or the one inputs put in its place.
LookupBuiltin(n, g) ==
    LET b == g["__builtins__"]
    IN  IF b = SafeBuiltinsDict /\ n \in SafeBuiltins
        THEN [found |-> TRUE, val |-> Builtin(n)]
        ELSE IF b.t = "dict" /\ b.s = n THEN [found |-> TRUE, val |-> PyInt(b.v[1])]
        ELSE [found |-> FALSE, val |-> None]

\* Name resolution of the snippet: globals first, then __builtins__.
Lookup(n, g) ==
    IF n \in DOMAIN g THEN [found |-> TRUE, val |-> g[n]] ELSE LookupBuiltin(n, g)

NameError(n) == Exc("NameError", <<"name '", n, "' is not defined">>)

EvalOk(v, out) == [val |-> v, exc |-> NoExc, out |-> out]

EvalErr(e, out) == [val |-> None, exc |-> e, out |-> out]

\* The value of expression e in globals g, with the shared objects' attributes
\* mods and the captured stdout out.
Eval(e, g, mods, out) ==
    LET L == Lookup(e.name, g)
    IN  IF e.k = "const" THEN EvalOk(e.val, out)
        ELSE IF ~L.found THEN EvalErr(NameError(e.name), out)
        ELSE IF e.k = "name" THEN EvalOk(L.val, out)
        ELSE IF e.k \in {"add", "mul"} THEN
            IF L.val.t # "int"
            THEN EvalErr(Exc("TypeError", <<"unsupported operand type(s)">>), out)
            ELSE IF e.k = "add" THEN EvalOk(PyInt(L.val.v[1] + e.val.v[1]), out)
            ELSE EvalOk(PyInt(L.val.v[1] * e.val.v[1]), out)
        ELSE IF e.k = "call" THEN
            IF L.val.t # "builtin"
            THEN EvalErr(Exc("TypeError", <<"object is not callable">>), out)
            ELSE IF L.val.s = "print" THEN EvalOk(None, out \o <<e.val.s, "\n">>)
            ELSE EvalOk(None, out)
        ELSE IF L.val.t \notin {"module", "type"}
            THEN EvalErr(Exc("AttributeError", <<"object has no attribute '", e.attr, "'">>), out)
        ELSE IF e.k = "make" THEN EvalOk(e.val, out)
        ELSE \* attrget
            IF e.attr \in DOMAIN mods[L.val.s]
            THEN EvalOk(mods[L.val.s][e.attr], out)
            ELSE EvalOk(e.val, out)

StepResult(g, mods, out, e) == [g |-> g, mods |-> mods, out |-> out, exc |-> e]

\* One statement of exec(code, exec_globals).
Step(s, g, mods, out) ==
    LET E == Eval(s.expr, g, mods, out)
        T == Lookup(s.target, g)
        I == LookupBuiltin("__import__", g)
    IN  IF s.op = "import" THEN
            IF ~I.found
            THEN StepResult(g, mods, out, Exc("ImportError", <<"__import__ not found">>))
            ELSE IF I.val.t # "builtin"
            THEN StepResult(g, mods, out, Exc("TypeError", <<"object is not callable">>))
            ELSE StepResult((s.target :> Module(s.target)) @@ g, mods, out, NoExc)
        ELSE IF s.op = "setattr" /\ ~T.found
            THEN StepResult(g, mods, out, NameError(s.target))
        ELSE IF s.op = "setattr" /\ T.val.t \notin {"module", "type"}
            THEN StepResult(g, mods, out,
                            Exc("AttributeError", <<"object has no attribute '", s.attr, "'">>))
        ELSE IF E.exc # NoExc THEN StepResult(g, mods, E.out, E.exc)
        ELSE IF s.op = "assign" THEN StepResult((s.target :> E.val) @@ g, mods, E.out, NoExc)
        ELSE IF s.op = "setattr"
            THEN StepResult(g, [mods EXCEPT ![T.val.s] = (s.attr :> E.val) @@ @], E.out, NoExc)
        ELSE StepResult(g, mods, E.out, NoExc)

\* The last line compiled by eval: the expression it is, if it is one.
TailIsExpr(r) ==
    /\ r.prog # <<>>
    /\ r.prog[Len(r.prog)].op = "expr"
    /\ ~r.prog[Len(r.prog)].guarded

ResultNames == <<"result", "answer", "output", "final">>

\* for var_name in [...]: if var_name in exec_globals: result = ...; break
RECURSIVE FirstBound(_, _)
FirstBound(names, g) ==
    IF names = <<>> THEN None
    ELSE IF Head(names) \in DOMAIN g THEN g[Head(names)]
    ELSE FirstBound(Tail(names), g)

(***************************************************************************)
(* Result normalization and JSON encoding.                                 *)
(***************************************************************************)
HasItem(v) == v.t \in {"numpy.ndarray", "numpy.int64"}

\* ndarray.item() copies the only element of an array of size 1.
ItemRaises(v) == v.t = "numpy.ndarray" /\ Len(v.v) # 1

Item(v) == PyInt(v.v[1])

ToList(v) == PyList(v.v)

HasFloat(v) == v.t \in {"int", "float", "Fraction", "Symbol"}

FloatRaises(v) == v.t = "Symbol"

Float(v) == IF v.t = "int" THEN PyFloat(v.v[1], 1) ELSE PyFloat(v.v[1], v.v[2])

Str(v) == V("str", v.v, v.s)

JsonSerializable(v) == v.t \in {"NoneType", "int", "float", "str", "list"}

\* json.dumps of a value: numbers by their value, text as text.
JsonValue(v) ==
    IF v.t = "int" THEN [json |-> "number", v |-> <<v.v[1], 1>>, s |-> ""]
    ELSE IF v.t = "float" THEN [json |-> "number", v |-> v.v, s |-> ""]
    ELSE IF v.t = "str" THEN [json |-> "string", v |-> v.v, s |-> v.s]
    ELSE IF v.t = "list" THEN [json |-> "array", v |-> v.v, s |-> ""]
    ELSE [json |-> "null", v |-> <<>>, s |-> ""]

Success(result, out) ==
    [ok |-> TRUE, result |-> result, stdout |-> out, stderr |-> None]

TimeoutFailure == [ok |-> FALSE, error |-> <<"Execution timeout (5 seconds)">>]

Failure(e) ==
    [ok |-> FALSE, error |-> <<e.type, ": ">> \o e.msg,
     traceback |-> <<"Traceback (most recent call last):", e.type>> \o e.msg]

\* json.dumps(result) of an ExecutionOutcome
DumpsRaises(o) == o.ok /\ ~JsonSerializable(o.result)

Dumps(o) == IF o.ok THEN [o EXCEPT !.result = JsonValue(@)] ELSE o

(***************************************************************************)
(* State.                                                                  *)
(***************************************************************************)
VARIABLES
    pc,          \* per thread: the position in handler / execute_python
    req,         \* per thread: the request being served (0: none)
    callst,      \* per thread: execute_python not called, running, returned, raised
    ns,          \* per thread: exec_globals
    ip,          \* per thread: the statement exec is at
    result,      \* per thread: the local variable result
    stdout,      \* per thread: stdout_capture
    exc,         \* per thread: the exception being handled or propagating
    ret,         \* per thread: the outcome execute_python returns
    resp,        \* per thread: the last HTTP response of handler
    alarm,       \* the process's SIGALRM timer is pending
    sighandler,  \* timeout_handler is installed for SIGALRM
    modattrs,    \* attributes written on the shared module objects
    fired,       \* timeout_handler ran during the main thread's current call
    history,     \* the Success outcomes execute_python has returned, by request
    ncalls       \* requests accepted so far

vars ==
    <<pc, req, callst, ns, ip, result, stdout, exc, ret, resp, alarm, sighandler,
      modattrs, fired, history, ncalls>>

NoRet == [ok |-> FALSE, error |-> <<>>]

NoResp == [req |-> 0, statusCode |-> 0, body |-> NoRet]

\* The positions between entering and leaving execute_python.
ExecutePcs ==
    {"signal", "alarm", "build", "exec", "lookup", "fallback", "fallback_eval",
     "normalize", "to_float", "return", "except_timeout", "except_exception", "finally"}

\* The positions inside the try block of execute_python, outside its inner
\* try blocks.
TryPcs == {"build", "exec", "lookup", "fallback", "normalize", "return"}

Init ==
    /\ pc = [t \in Threads |-> "idle"]
    /\ req = [t \in Threads |-> 0]
    /\ callst = [t \in Threads |-> "none"]
    /\ ns = [t \in Threads |-> EmptyDict]
    /\ ip = [t \in Threads |-> 0]
    /\ result = [t \in Threads |-> None]
    /\ stdout = [t \in Threads |-> <<>>]
    /\ exc = [t \in Threads |-> NoExc]
    /\ ret = [t \in Threads |-> NoRet]
    /\ resp = [t \in Threads |-> NoResp]
    /\ alarm = FALSE
    /\ sighandler = FALSE
    /\ modattrs = [m \in SharedObjects |-> EmptyDict]
    /\ fired = FALSE
    /\ history = {}
    /\ ncalls = 0

R(t) == Requests[req[t]]

\* An exception raised inside the try block of execute_python goes to the
\* matching except clause.
ExceptPc(e) == IF e.type = "TimeoutError" THEN "except_timeout" ELSE "except_exception"

TimeoutSeconds == 5

\* signal.alarm(seconds): the timer is pending afterwards iff seconds > 0.
SignalAlarm(seconds) == seconds > 0

\* A finally clause that leaves the timer as it is.
AlarmLeftArmed == alarm

\* The timer after the finally clause has run.
AlarmAfterFinally == SignalAlarm(0)

(***************************************************************************)
(* handler                                                                 *)
(***************************************************************************)
\* The platform invokes handler(event, context) on thread t.
Request(t, i) ==
    /\ pc[t] = "idle"
    /\ ncalls < MaxCalls
    /\ pc' = [pc EXCEPT ![t] = "h_parse"]
    /\ req' = [req EXCEPT ![t] = i]
    /\ resp' = [resp EXCEPT ![t] = NoResp]
    /\ ncalls' = ncalls + 1
    /\ fired' = IF t = MainThread THEN FALSE ELSE fired
    /\ UNCHANGED <<callst, ns, ip, result, stdout, exc, ret, alarm, sighandler, modattrs,
                   history>>

Respond(t, status, body) ==
    /\ resp' = [resp EXCEPT ![t] = [req |-> req[t], statusCode |-> status, body |-> body]]
    /\ pc' = [pc EXCEPT ![t] = "idle"]
    /\ req' = [req EXCEPT ![t] = 0]
    /\ callst' = [callst EXCEPT ![t] = "none"]
    /\ ns' = [ns EXCEPT ![t] = EmptyDict]
    /\ ip' = [ip EXCEPT ![t] = 0]
    /\ result' = [result EXCEPT ![t] = None]
    /\ stdout' = [stdout EXCEPT ![t] = <<>>]
    /\ exc' = [exc EXCEPT ![t] = NoExc]
    /\ ret' = [ret EXCEPT ![t] = NoRet]

\* Parse the body, reject an empty code, else call execute_python.
HandlerParse(t) ==
    /\ pc[t] = "h_parse"
    /\ IF ~R(t).wellformed THEN
            /\ exc' = [exc EXCEPT ![t] = Exc("JSONDecodeError", <<"Expecting value">>)]
            /\ pc' = [pc EXCEPT ![t] = "h_except"]
            /\ UNCHANGED <<req, callst, ns, ip, result, stdout, ret, resp>>
       ELSE IF R(t).code = <<>> THEN
            Respond(t, 400, [ok |-> FALSE, error |-> <<"No code provided">>])
       ELSE
            /\ pc' = [pc EXCEPT ![t] = "signal"]
            /\ callst' = [callst EXCEPT ![t] = "running"]
            /\ UNCHANGED <<req, ns, ip, result, stdout, exc, ret, resp>>
    /\ UNCHANGED <<alarm, sighandler, modattrs, fired, history, ncalls>>

\* json.dumps(result) and the 200 response; a TypeError goes to the except clause.
HandlerDumps(t) ==
    /\ pc[t] = "h_dumps"
    /\ IF DumpsRaises(ret[t]) THEN
            /\ exc' = [exc EXCEPT ![t] =
                        Exc("TypeError", <<"Object of type ", ret[t].result.t,
                                           " is not JSON serializable">>)]
            /\ pc' = [pc EXCEPT ![t] = "h_except"]
            /\ UNCHANGED <<req, callst, ns, ip, result, stdout, ret, resp>>
       ELSE Respond(t, 200, Dumps(ret[t]))
    /\ UNCHANGED <<alarm, sighandler, modattrs, fired, history, ncalls>>

\* except Exception as e: the 500 response
HandlerExcept(t) ==
    /\ pc[t] = "h_except"
    /\ Respond(t, 500, [ok |-> FALSE, error |-> <<"Handler error: ">> \o exc[t].msg])
    /\ UNCHANGED <<alarm, sighandler, modattrs, fired, history, ncalls>>

(***************************************************************************)
(* execute_python                                                          *)
(***************************************************************************)
\* signal.signal(signal.SIGALRM, timeout_handler): ValueError off the main
\* thread, raised before the try block.
InstallHandler(t) ==
    /\ pc[t] = "signal"
    /\ IF t = MainThread THEN
            /\ sighandler' = TRUE
            /\ pc' = [pc EXCEPT ![t] = "alarm"]
            /\ UNCHANGED <<exc, callst>>
       ELSE
            /\ exc' = [exc EXCEPT ![t] =
                        Exc("ValueError",
                            <<"signal only works in main thread of the main interpreter">>)]
            /\ callst' = [callst EXCEPT ![t] = "raised"]
            /\ pc' = [pc EXCEPT ![t] = "h_except"]
            /\ UNCHANGED sighandler
    /\ UNCHANGED <<req, ns, ip, result, stdout, ret, resp, alarm, modattrs, fired, history,
                   ncalls>>

\* signal.alarm(5), then the try block is entered.
ArmAlarm(t) ==
    /\ pc[t] = "alarm"
    /\ alarm' = SignalAlarm(TimeoutSeconds)
    /\ pc' = [pc EXCEPT ![t] = "build"]
    /\ UNCHANGED <<req, callst, ns, ip, result, stdout, exc, ret, resp, sighandler, modattrs,
                   fired, history, ncalls>>

\* safe_globals, inputs on top, the capture buffers, exec_globals
BuildNamespace(t) ==
    /\ pc[t] = "build"
    /\ ns' = [ns EXCEPT ![t] = BuildGlobals(R(t).inputs)]
    /\ stdout' = [stdout EXCEPT ![t] = <<>>]
    /\ ip' = [ip EXCEPT ![t] = 1]
    /\ pc' = [pc EXCEPT ![t] = "exec"]
    /\ UNCHANGED <<req, callst, result, exc, ret, resp, alarm, sighandler, modattrs, fired,
                   history, ncalls>>

\* exec(code, exec_globals), one statement at a time.  A statement inside the
\* snippet's own try/except continues after its exception; while True: pass
\* never completes.
ExecStmt(t) ==
    /\ pc[t] = "exec"
    /\ ip[t] <= Len(R(t).prog)
    /\ R(t).prog[ip[t]].op # "loop"
    /\ LET s == R(t).prog[ip[t]]
           S == Step(s, ns[t], modattrs, stdout[t])
       IN  IF S.exc = NoExc THEN
                /\ ns' = [ns EXCEPT ![t] = S.g]
                /\ modattrs' = S.mods
                /\ stdout' = [stdout EXCEPT ![t] = S.out]
                /\ ip' = [ip EXCEPT ![t] = @ + 1]
                /\ UNCHANGED <<pc, exc>>
           ELSE IF s.guarded THEN
                /\ stdout' = [stdout EXCEPT ![t] = S.out]
                /\ ip' = [ip EXCEPT ![t] = @ + 1]
                /\ UNCHANGED <<pc, exc, ns, modattrs>>
           ELSE
                /\ stdout' = [stdout EXCEPT ![t] = S.out]
                /\ exc' = [exc EXCEPT ![t] = S.exc]
                /\ pc' = [pc EXCEPT ![t] = ExceptPc(S.exc)]
                /\ UNCHANGED <<ip, ns, modattrs>>
    /\ UNCHANGED <<req, callst, result, ret, resp, alarm, sighandler, fired, history, ncalls>>

\* After exec: the first of result, answer, output, final in exec_globals.
LookupResult(t) ==
    /\ pc[t] = "exec"
    /\ ip[t] > Len(R(t).prog)
    /\ result' = [result EXCEPT ![t] = FirstBound(ResultNames, ns[t])]
    /\ pc' = [pc EXCEPT ![t] = "fallback"]
    /\ UNCHANGED <<req, callst, ns, ip, stdout, exc, ret, resp, alarm, sighandler, modattrs,
                   fired, history, ncalls>>

\* if result is None: ... if last_line and not last_line.startswith(...)
FallbackCheck(t) ==
    /\ pc[t] = "fallback"
    /\ pc' = [pc EXCEPT ![t] =
                IF result[t] = None /\ FallbackApplies(R(t).code)
                THEN "fallback_eval" ELSE "normalize"]
    /\ UNCHANGED <<req, callst, ns, ip, result, stdout, exc, ret, resp, alarm, sighandler,
                   modattrs, fired, history, ncalls>>

\* try: result = eval(last_line, exec_globals)  except: pass
FallbackEval(t) ==
    /\ pc[t] = "fallback_eval"
    /\ LET s == R(t).prog[Len(R(t).prog)]
           E == IF TailIsExpr(R(t))
                THEN Eval(s.expr, ns[t], modattrs, stdout[t])
                ELSE EvalErr(Exc("SyntaxError", <<"invalid syntax">>), stdout[t])
       IN  /\ result' = [result EXCEPT ![t] = IF E.exc = NoExc THEN E.val ELSE @]
           /\ stdout' = [stdout EXCEPT ![t] = E.out]
    /\ pc' = [pc EXCEPT ![t] = "normalize"]
    /\ UNCHANGED <<req, callst, ns, ip, exc, ret, resp, alarm, sighandler, modattrs, fired,
                   history, ncalls>>

\* getvalue(), then item() / tolist() / the float branch, first match wins
Normalize(t) ==
    /\ pc[t] = "normalize"
    /\ IF HasItem(result[t]) THEN
            IF ItemRaises(result[t]) THEN
                /\ exc' = [exc EXCEPT ![t] =
                            Exc("ValueError",
                                <<"can only convert an array of size 1 to a Python scalar">>)]
                /\ pc' = [pc EXCEPT ![t] = "except_exception"]
                /\ UNCHANGED result
            ELSE
                /\ result' = [result EXCEPT ![t] = Item(@)]
                /\ pc' = [pc EXCEPT ![t] = "return"]
                /\ UNCHANGED exc
       ELSE IF result[t].t = "numpy.ndarray" THEN
            /\ result' = [result EXCEPT ![t] = ToList(@)]
            /\ pc' = [pc EXCEPT ![t] = "return"]
            /\ UNCHANGED exc
       ELSE
            /\ pc' = [pc EXCEPT ![t] = IF HasFloat(result[t]) THEN "to_float" ELSE "return"]
            /\ UNCHANGED <<result, exc>>
    /\ UNCHANGED <<req, callst, ns, ip, stdout, ret, resp, alarm, sighandler, modattrs, fired,
                   history, ncalls>>

\* try: result = float(result)  except: result = str(result)
ToFloat(t) ==
    /\ pc[t] = "to_float"
    /\ result' = [result EXCEPT ![t] = IF FloatRaises(@) THEN Str(@) ELSE Float(@)]
    /\ pc' = [pc EXCEPT ![t] = "return"]
    /\ UNCHANGED <<req, callst, ns, ip, stdout, exc, ret, resp, alarm, sighandler, modattrs,
                   fired, history, ncalls>>

\* return {'ok': True, ...}: the value is held while the finally clause runs
Return(t) ==
    /\ pc[t] = "return"
    /\ ret' = [ret EXCEPT ![t] = Success(result[t], stdout[t])]
    /\ pc' = [pc EXCEPT ![t] = "finally"]
    /\ UNCHANGED <<req, callst, ns, ip, result, stdout, exc, resp, alarm, sighandler,
                   modattrs, fired, history, ncalls>>

\* except TimeoutError: return {'ok': False, 'error': ...}
ExceptTimeout(t) ==
    /\ pc[t] = "except_timeout"
    /\ ret' = [ret EXCEPT ![t] = TimeoutFailure]
    /\ exc' = [exc EXCEPT ![t] = NoExc]
    /\ pc' = [pc EXCEPT ![t] = "finally"]
    /\ UNCHANGED <<req, callst, ns, ip, result, stdout, resp, alarm, sighandler, modattrs,
                   fired, history, ncalls>>

\* except Exception as e: return {'ok': False, 'error': ..., 'traceback': ...}
ExceptException(t) ==
    /\ pc[t] = "except_exception"
    /\ ret' = [ret EXCEPT ![t] = Failure(exc[t])]
    /\ exc' = [exc EXCEPT ![t] = NoExc]
    /\ pc' = [pc EXCEPT ![t] = "finally"]
    /\ UNCHANGED <<req, callst, ns, ip, result, stdout, resp, alarm, sighandler, modattrs,
                   fired, history, ncalls>>

\* finally: signal.alarm(0), then the held return or the propagating
\* exception leaves execute_python.
Finally(t) ==
    /\ pc[t] = "finally"
    /\ alarm' = AlarmAfterFinally
    /\ IF exc[t] # NoExc THEN
            /\ callst' = [callst EXCEPT ![t] = "raised"]
            /\ pc' = [pc EXCEPT ![t] = "h_except"]
            /\ UNCHANGED history
       ELSE
            /\ callst' = [callst EXCEPT ![t] = "returned"]
            /\ pc' = [pc EXCEPT ![t] = "h_dumps"]
            /\ history' =
                IF ret[t].ok
                THEN history \cup {[req |-> req[t], result |-> ret[t].result,
                                    stdout |-> ret[t].stdout,
                                    intime |-> ~(t = MainThread /\ fired)]}
                ELSE history
    /\ UNCHANGED <<req, ns, ip, result, stdout, exc, ret, resp, sighandler, modattrs, fired,
                   ncalls>>

(***************************************************************************)
(* The deadline: SIGALRM is delivered, timeout_handler raises TimeoutError *)
(* in the main thread, wherever it is.                                     *)
(***************************************************************************)
Fire ==
    /\ alarm
    /\ sighandler
    /\ alarm' = FALSE
    /\ fired' = TRUE
    /\ LET t == MainThread
           p == pc[t]
       IN  IF p = "exec" /\ ip[t] <= Len(R(t).prog) /\ R(t).prog[ip[t]].guarded THEN
                \* caught by the snippet's own except clause
                /\ ip' = [ip EXCEPT ![t] = @ + 1]
                /\ UNCHANGED <<pc, exc, ret, result, callst>>
           ELSE IF p \in TryPcs THEN
                /\ exc' = [exc EXCEPT ![t] = TimeoutExc]
                /\ pc' = [pc EXCEPT ![t] = "except_timeout"]
                /\ UNCHANGED <<ip, ret, result, callst>>
           ELSE IF p = "fallback_eval" THEN
                \* caught by the bare except around eval
                /\ pc' = [pc EXCEPT ![t] = "normalize"]
                /\ UNCHANGED <<ip, exc, ret, result, callst>>
           ELSE IF p = "to_float" THEN
                \* caught by the bare except around float
                /\ result' = [result EXCEPT ![t] = Str(@)]
                /\ pc' = [pc EXCEPT ![t] = "return"]
                /\ UNCHANGED <<ip, exc, ret, callst>>
           ELSE IF p \in {"except_timeout", "except_exception"} THEN
                \* raised inside an except clause: propagates through finally
                /\ exc' = [exc EXCEPT ![t] = TimeoutExc]
                /\ pc' = [pc EXCEPT ![t] = "finally"]
                /\ UNCHANGED <<ip, ret, result, callst>>
           ELSE IF p = "finally" THEN
                \* raised inside the finally clause, before signal.alarm(0)
                /\ exc' = [exc EXCEPT ![t] = TimeoutExc]
                /\ callst' = [callst EXCEPT ![t] = "raised"]
                /\ pc' = [pc EXCEPT ![t] = "h_except"]
                /\ UNCHANGED <<ip, ret, result>>
           ELSE IF p \in {"h_parse", "h_dumps"} THEN
                /\ exc' = [exc EXCEPT ![t] = TimeoutExc]
                /\ pc' = [pc EXCEPT ![t] = "h_except"]
                /\ UNCHANGED <<ip, ret, result, callst>>
           ELSE
                \* outside every try block
                /\ exc' = [exc EXCEPT ![t] = TimeoutExc]
                /\ pc' = [pc EXCEPT ![t] = "uncaught"]
                /\ UNCHANGED <<ip, ret, result, callst>>
    /\ UNCHANGED <<req, ns, stdout, resp, sighandler, modattrs, history, ncalls>>

Next ==
    \/ \E t \in Threads, i \in ReqIds : Request(t, i)
    \/ \E t \in Threads :
        \/ HandlerParse(t)
        \/ HandlerDumps(t)
        \/ HandlerExcept(t)
        \/ InstallHandler(t)
        \/ ArmAlarm(t)
        \/ BuildNamespace(t)
        \/ ExecStmt(t)
        \/ LookupResult(t)
        \/ FallbackCheck(t)
        \/ FallbackEval(t)
        \/ Normalize(t)
        \/ ToFloat(t)
        \/ Return(t)
        \/ ExceptTimeout(t)
        \/ ExceptException(t)
        \/ Finally(t)
    \/ Fire

Spec == Init /\ [][Next]_vars

(***************************************************************************)
(* Properties.                                                             *)
(***************************************************************************)
\* execute_python has been left by thread t, by return or by exception.
Left(t) == callst[t] \in {"returned", "raised"}

\* The snippet of thread t ran to its end.
RanToEnd(t) == req[t] # 0 /\ ip[t] > Len(R(t).prog)

\* The names among result, answer, output, final bound in exec_globals of t.
BoundResultNames(t) == {i \in 1..Len(ResultNames) : ResultNames[i] \in DOMAIN ns[t]}

FirstBoundIndex(t) == CHOOSE i \in BoundResultNames(t) : \A j \in BoundResultNames(t) : i <= j

\* Two values that JSON shows as the same value (42 and 42.0).
SameJson(a, b) == JsonValue(a) = JsonValue(b)

\* The snippet of request i has an exception handler of its own.
HasOwnHandler(i) == \E j \in 1..Len(Requests[i].prog) : Requests[i].prog[j].guarded

\* C1: on the main thread, when the deadline has fired during a call (while
\* the snippet ran, while the trailing expression was evaluated or while the
\* result was normalized) and the call returns an outcome, that outcome is the
\* timeout Failure {ok: false, error: 'Execution timeout (5 seconds)'} with no
\* traceback, never a Success.  Stated for snippets without an exception
\* handler of their own.
C1_DeadlineYieldsTimeoutFailure ==
    (/\ fired
     /\ callst[MainThread] = "returned"
     /\ ~HasOwnHandler(req[MainThread]))
    => ret[MainThread] = TimeoutFailure

\* C2: no exception leaves execute_python on the main thread, wherever the
\* deadline fires: the call always ends by returning an outcome.
C2_NoExceptionEscapes == callst[MainThread] # "raised"

\* C3: on the main thread and with no deadline fired, a well-formed request
\* with a non-empty code is answered with status 200 and the serialized
\* outcome, a result that JSON cannot represent being sent as a string.
C3_NonEmptyCodeAnswers200 ==
    LET r == resp[MainThread]
    IN  (r.req # 0 /\ ~fired /\ Requests[r.req].wellformed /\ Requests[r.req].code # <<>>)
            => /\ r.statusCode = 200
               /\ r.body.ok => r.body.result.json \in {"number", "string", "array", "null"}

\* The requests whose snippet binds result to an array of several numbers.
ArrayRequests ==
    {i \in ReqIds :
        \E j \in 1..Len(Requests[i].prog) :
            LET s == Requests[i].prog[j]
            IN  /\ s.op = "assign" /\ s.target = "result"
                /\ s.expr.val.t = "numpy.ndarray" /\ Len(s.expr.val.v) > 1}

ArrayOf(i) ==
    LET j == CHOOSE j \in 1..Len(Requests[i].prog) :
                Requests[i].prog[j].expr.val.t = "numpy.ndarray"
    IN  Requests[i].prog[j].expr.val.v

\* C4: a snippet whose result is an array of several numbers returns Success
\* with the plain list of its numbers (main thread, no deadline fired).
C4_ArrayResultIsList ==
    (Left(MainThread) /\ ~fired /\ req[MainThread] \in ArrayRequests) =>
        /\ callst[MainThread] = "returned"
        /\ ret[MainThread].ok
        /\ ret[MainThread].result = PyList(ArrayOf(req[MainThread]))

\* C5: after the snippet has run, the extracted result is the value of the
\* first of result, answer, output, final that is bound, whatever that value
\* is, and the trailing-expression fallback is evaluated only when none of
\* them is bound.
C5_ResultIsFirstBoundName ==
    \A t \in Threads :
        /\ pc[t] = "fallback_eval" => BoundResultNames(t) = {}
        /\ (pc[t] = "normalize" /\ BoundResultNames(t) # {}) =>
                result[t] = ns[t][ResultNames[FirstBoundIndex(t)]]

IdentifierChars ==
    {"a", "b", "c", "d", "e", "f", "g", "h", "i", "j", "k", "l", "m", "n", "o", "p", "q",
     "r", "s", "t", "u", "v", "w", "x", "y", "z", "A", "B", "C", "D", "E", "F", "G", "H",
     "I", "J", "K", "L", "M", "N", "O", "P", "Q", "R", "S", "T", "U", "V", "W", "X", "Y",
     "Z", "0", "1", "2", "3", "4", "5", "6", "7", "8", "9", "_"}

\* The line starts with a statement keyword as a word, not as the prefix of a
\* longer identifier.
BeginsWithKeyword(line) ==
    \E i \in 1..Len(StatementKeywords) :
        /\ StartsWith(line, StatementKeywords[i])
        /\ \/ Len(line) = Len(StatementKeywords[i])
           \/ line[Len(StatementKeywords[i]) + 1] \notin IdentifierChars

\* C6: when the snippet has run, none of the four names is bound and the last
\* non-empty line does not begin with a statement keyword, the call returns
\* Success with the value of that line as an expression in the post-execution
\* namespace, or null if evaluating it raises (main thread, no deadline fired).
C6_TrailingExpressionEvaluated ==
    LET t == MainThread
        last_line == LastLine(R(t).code)
        E == Eval(R(t).prog[Len(R(t).prog)].expr, ns[t], modattrs, <<>>)
    IN  (/\ Left(t) /\ ~fired /\ RanToEnd(t)
         /\ BoundResultNames(t) = {}
         /\ last_line # <<>> /\ ~BeginsWithKeyword(last_line))
        =>
            /\ callst[t] = "returned"
            /\ ret[t].ok
            /\ IF TailIsExpr(R(t)) /\ E.exc = NoExc
               THEN SameJson(ret[t].result, E.val)
               ELSE ret[t].result = None

\* C7: two calls with the same code and inputs that both return Success
\* within budget return the same result and the same stdout.
C7_SameRequestSameOutcome ==
    \A a, b \in history :
        (a.req = b.req /\ a.intime /\ b.intime) =>
            a.result = b.result /\ a.stdout = b.stdout

\* The names the claim lists as reachable: 25 builtins and 7 globals.
C8_AllowList ==
    {"abs", "all", "any", "bool", "dict", "enumerate", "filter", "float", "int", "len",
     "list", "map", "max", "min", "pow", "range", "round", "set", "sorted", "str", "sum",
     "tuple", "type", "zip", "print",
     "sympy", "np", "numpy", "Fraction", "math", "itertools", "statistics"}

\* The names inputs supplies: its keys, and the key of a mapping it supplies
\* as __builtins__.
InputNames(i) ==
    LET inputs == Requests[i].inputs
    IN  DOMAIN inputs \cup
        (IF "__builtins__" \in DOMAIN inputs /\ inputs["__builtins__"].t = "dict"
         THEN {inputs["__builtins__"].s} ELSE {})

\* The names bound by the statements of prog before statement j.
BoundBefore(prog, j) ==
    {prog[k].target : k \in {k \in 1..(j - 1) : prog[k].op \in {"assign", "import"}}}

\* Statement j of request i is an import statement or refers to a name outside
\* the allow-list, outside the keys of inputs and not bound by the snippet
\* before.
OutsideKeys(i, j) ==
    LET prog == Requests[i].prog
        s == prog[j]
        known == C8_AllowList \cup DOMAIN Requests[i].inputs \cup BoundBefore(prog, j)
    IN  \/ s.op = "import"
        \/ s.op = "setattr" /\ s.target \notin known
        \/ s.expr.k # "const" /\ s.expr.name \notin known

\* The same, a name that inputs supplies through __builtins__ counting as a
\* name of inputs.
Outside(i, j) ==
    LET prog == Requests[i].prog
        s == prog[j]
        known == C8_AllowList \cup InputNames(i) \cup BoundBefore(prog, j)
    IN  \/ s.op = "import" /\ "__import__" \notin InputNames(i)
        \/ s.op = "setattr" /\ s.target \notin known
        \/ s.expr.k # "const" /\ s.expr.name \notin known

RefersOutside(i) == \E j \in 1..Len(Requests[i].prog) : OutsideKeys(i, j)

NameResolutionFailure(o) ==
    /\ ~o.ok
    /\ "traceback" \in DOMAIN o
    /\ o.error[1] \in {"NameError", "ImportError"}

ArmedPcs == ExecutePcs \ {"signal", "alarm"}

\* C9: the alarm is pending only while the call that armed it is between
\* arming and its finally clause: whichever way a call is left (Success,
\* timeout Failure, Failure, exception), no alarm is pending afterwards, none
\* is pending while no call is in progress, and at most one call is between
\* arming and disarming.
C9_NoAlarmOutsideCall ==
    /\ alarm => pc[MainThread] \in ArmedPcs
    /\ Left(MainThread) => ~alarm
    /\ (\A t \in Threads : callst[t] # "running") => ~alarm
    /\ Cardinality({t \in Threads : pc[t] \in ArmedPcs}) <= 1

\* A call armed the alarm and returned Success before the deadline fired.
C9_Witness ==
    /\ callst[MainThread] = "returned"
    /\ ret[MainThread].ok
    /\ ~fired
    /\ sighandler
    /\ ~alarm

\* C10: a call on a thread other than the main thread arms nothing and leaves
\* execute_python by returning the outcome of the snippet.
C10_WorkerCallReturnsOutcome ==
    \A t \in Threads \ {MainThread} :
        Left(t) => callst[t] = "returned"
====
